---- MODULE Spec2Model ----
(***************************************************************************)
(* Model of XcodeBuildServer (src/src/multispy_xcode_build_server/         *)
(* server.py): the start_server context (handler registration, handshake,  *)
(* yield, shutdown), the two typed queries request_rename and              *)
(* request_workspace_symbols, and their response validation / translation. *)
(***************************************************************************)
EXTENDS Integers, Sequences, FiniteSets, TLC

(***************************************************************************)
(* Bounds of the model.                                                    *)
(***************************************************************************)
NumCallers == 2
MaxEdits == 2
MaxSymbols == 2
MaxRegistrations == 2
MaxRequests == 3

(***************************************************************************)
(* JSON values as decoded by the JSON-RPC layer, and Python outcomes.      *)
(***************************************************************************)
JNull == [t |-> "null"]
JNum(n) == [t |-> "num", n |-> n]
JStr(s) == [t |-> "str", s |-> s]
JList(l) == [t |-> "list", l |-> l]
JObj(o) == [t |-> "dict", o |-> o]
JBool(b) == [t |-> "bool", b |-> b]

EmptyDict == [k \in {} |-> JNull]

IsDict(v) == v.t = "dict"
IsList(v) == v.t = "list"
HasKey(v, k) == k \in DOMAIN v.o

\* A value computed without an exception, and a raised exception of class e.
Val(v) == [ok |-> TRUE, v |-> v]
Raise(e) == [ok |-> FALSE, err |-> e]
NoReply == [none |-> TRUE]

\* Python's v[k] for a string key k.
Subscript(v, k) ==
    IF IsDict(v)
    THEN IF HasKey(v, k) THEN Val(v.o[k]) ELSE Raise("KeyError")
    ELSE Raise("TypeError")

\* Python's `k in v` for a string key k: membership in the keys of a dict or
\* the elements of a list; None, numbers and booleans are not iterable.
Contains(v, k) ==
    IF IsDict(v) THEN Val(HasKey(v, k))
    ELSE IF IsList(v) THEN Val(\E i \in 1..Len(v.l) : v.l[i] = JStr(k))
    ELSE Raise("TypeError")

\* Python's v == True: true for True and for the number 1.
EqualsTrue(v) == v = JBool(TRUE) \/ v = JNum(1)

(***************************************************************************)
(* request_rename, lines 212-226: validation and translation.              *)
(***************************************************************************)
RECURSIVE RenameEditsReversed(_, _, _)
RenameEditsReversed(changes, i, edits) ==
    IF i > Len(changes) THEN Val(edits)
    ELSE LET change == changes[i] IN
         IF ~IsDict(change) THEN Raise("AssertionError")
         ELSE IF ~HasKey(change, "range") THEN Raise("AssertionError")
         ELSE IF ~HasKey(change, "newText") THEN Raise("AssertionError")
         ELSE RenameEditsReversed(changes, i + 1, <<change.o>> \o edits)

\* The inner loop: for change in changes, from the i-th element on.
RECURSIVE RenameEdits(_, _, _)
RenameEdits(changes, i, edits) ==
    IF i > Len(changes) THEN Val(edits)
    ELSE LET change == changes[i] IN
         IF ~IsDict(change) THEN Raise("AssertionError")
         ELSE IF ~HasKey(change, "range") THEN Raise("AssertionError")
         ELSE IF ~HasKey(change, "newText") THEN Raise("AssertionError")
         ELSE RenameEdits(changes, i + 1, Append(edits, change.o))

\* The outer loop: for uri, changes in response["changes"].items().
RECURSIVE RenameItems(_, _, _)
RenameItems(items, todo, ret) ==
    IF todo = {} THEN Val(ret)
    ELSE LET uri == CHOOSE u \in todo : TRUE
             changes == items[uri]
         IN IF ~IsList(changes) THEN Raise("AssertionError")
            ELSE LET edits == RenameEdits(changes.l, 1, <<>>) IN
                 IF ~edits.ok THEN edits
                 ELSE RenameItems(items, todo \ {uri},
                                  [u \in DOMAIN ret \cup {uri} |->
                                      IF u = uri THEN edits.v ELSE ret[u]])

RenameTranslate(response) ==
    IF ~IsDict(response) THEN Raise("AssertionError")
    ELSE IF ~HasKey(response, "changes") THEN Raise("AssertionError")
    ELSE LET changes == response.o["changes"] IN
         IF ~IsDict(changes) THEN Raise("AttributeError")
         ELSE LET r == RenameItems(changes.o, DOMAIN changes.o, EmptyDict) IN
              IF r.ok THEN [ok |-> TRUE, edits |-> r.v] ELSE r

(***************************************************************************)
(* request_workspace_symbols, lines 245-270: validation and translation.   *)
(***************************************************************************)
OptionalFields == <<"containerName", "tags", "data">>

SymbolLocationUriOnly(item) ==
    LET loc == Subscript(item, "location") IN
    IF ~loc.ok THEN loc
    ELSE LET uri == Subscript(loc.v, "uri") IN
         IF ~uri.ok THEN uri ELSE Val(JObj([uri |-> uri.v]))

\* The conditional expression of lines 257-260.
SymbolLocation(item) ==
    LET loc == Subscript(item, "location") IN
    IF ~loc.ok THEN loc
    ELSE IF IsDict(loc.v) /\ HasKey(loc.v, "range") THEN loc
    ELSE LET uri == Subscript(loc.v, "uri") IN
         IF ~uri.ok THEN uri ELSE Val(JObj([uri |-> uri.v]))

\* Lines 264-266: copy each optional field that the item has.
RECURSIVE SymbolOptional(_, _, _)
SymbolOptional(item, i, symbol) ==
    IF i > Len(OptionalFields) THEN symbol
    ELSE LET field == OptionalFields[i] IN
         IF HasKey(item, field)
         THEN SymbolOptional(item, i + 1,
                  [k \in DOMAIN symbol \cup {field} |->
                      IF k = field THEN item.o[field] ELSE symbol[k]])
         ELSE SymbolOptional(item, i + 1, symbol)

\* Lines 252-266: one iteration of the loop body.
SymbolOf(item) ==
    IF ~IsDict(item) THEN Raise("AssertionError")
    ELSE LET name == Subscript(item, "name") IN
         IF ~name.ok THEN name
         ELSE LET kind == Subscript(item, "kind") IN
              IF ~kind.ok THEN kind
              ELSE LET location == SymbolLocation(item) IN
                   IF ~location.ok THEN location
                   ELSE Val(SymbolOptional(item, 1,
                            [name |-> name.v, kind |-> kind.v,
                             location |-> location.v]))

RECURSIVE SymbolsLoop(_, _, _)
SymbolsLoop(response, i, ret) ==
    IF i > Len(response) THEN Val(ret)
    ELSE LET symbol == SymbolOf(response[i]) IN
         IF ~symbol.ok THEN symbol
         ELSE SymbolsLoop(response, i + 1, Append(ret, symbol.v))

SymbolsTranslate(response) ==
    IF response = JNull THEN [ok |-> TRUE, symbols |-> <<>>]
    ELSE IF ~IsList(response) THEN Raise("AssertionError")
    ELSE LET r == SymbolsLoop(response.l, 1, <<>>) IN
         IF r.ok THEN [ok |-> TRUE, symbols |-> r.v] ELSE r

(***************************************************************************)
(* Session state.                                                          *)
(***************************************************************************)
VARIABLES
    spc,             \* position of the start_server generator
    registry,        \* self.server's handler table: {[kind, method, handler]}
    server_started,  \* LanguageServer.server_started
    proc,            \* the server process: "none", "running", "stopped"
    params,          \* the initialize parameters built at line 159
    ssent,           \* client-to-server messages sent by start_server, in order
    initReply,       \* the reply to the initialize request
    serr,            \* the exception start_server raised, or "none"
    unhandled,       \* server-initiated messages that found no handler
    service_ready,   \* self.service_ready_event
    calls,           \* per caller: the query call it is in
    template,        \* initialize_params.json as loaded at line 70
    ready_by,        \* the notification on which service_ready_event was set
    served,          \* a server-initiated request and its handler's outcome
    router           \* request ids, the pending table, messages in flight

vars == <<spc, registry, server_started, proc, params, ssent, initReply, serr,
          unhandled, service_ready, calls, template, ready_by, served, router>>

Callers == 1..NumCallers
Files == {"a.swift"}

\* Lines 148-154, in order.
RegistrationsWithoutStatus == <<
    [kind |-> "request", method |-> "client/registerCapability", handler |-> "register_capability_handler"],
    [kind |-> "notification", method |-> "window/logMessage", handler |-> "window_log_message"],
    [kind |-> "request", method |-> "workspace/executeClientCommand", handler |-> "execute_client_command_handler"],
    [kind |-> "notification", method |-> "$/progress", handler |-> "do_nothing"],
    [kind |-> "notification", method |-> "textDocument/publishDiagnostics", handler |-> "do_nothing"],
    [kind |-> "notification", method |-> "language/actionableNotification", handler |-> "do_nothing"] >>

\* Lines 148-154 with workspace/executeClientCommand taken for a notification.
RegistrationsWrongKind == <<
    [kind |-> "request", method |-> "client/registerCapability", handler |-> "register_capability_handler"],
    [kind |-> "notification", method |-> "language/status", handler |-> "lang_status_handler"],
    [kind |-> "notification", method |-> "window/logMessage", handler |-> "window_log_message"],
    [kind |-> "notification", method |-> "workspace/executeClientCommand", handler |-> "execute_client_command_handler"],
    [kind |-> "notification", method |-> "$/progress", handler |-> "do_nothing"],
    [kind |-> "notification", method |-> "textDocument/publishDiagnostics", handler |-> "do_nothing"],
    [kind |-> "notification", method |-> "language/actionableNotification", handler |-> "do_nothing"] >>

Registrations == <<
    [kind |-> "request", method |-> "client/registerCapability", handler |-> "register_capability_handler"],
    [kind |-> "notification", method |-> "language/status", handler |-> "lang_status_handler"],
    [kind |-> "notification", method |-> "window/logMessage", handler |-> "window_log_message"],
    [kind |-> "request", method |-> "workspace/executeClientCommand", handler |-> "execute_client_command_handler"],
    [kind |-> "notification", method |-> "$/progress", handler |-> "do_nothing"],
    [kind |-> "notification", method |-> "textDocument/publishDiagnostics", handler |-> "do_nothing"],
    [kind |-> "notification", method |-> "language/actionableNotification", handler |-> "do_nothing"] >>

\* self.server.on_request / on_notification: one handler per kind and method.
OnHandler(reg, entry) ==
    {e \in reg : ~(e.kind = entry.kind /\ e.method = entry.method)} \cup {entry}

RECURSIVE RegisterAll(_, _, _)
RegisterAll(reg, entries, i) ==
    IF i > Len(entries) THEN reg
    ELSE RegisterAll(OnHandler(reg, entries[i]), entries, i + 1)

\* Other coroutines run only while start_server is suspended at an await
\* (lines 158, 165, 174, 176, 177) or is not running.
AtAwait == spc \in {"init", "L158w", "L165w", "body", "L176w", "exited", "raised"}

\* The session state of section 3 of the specification, read off start_server.
Phase ==
    CASE spc = "init" -> "NotStarted"
      [] spc \in {"L148", "L156", "L158", "L158w", "L159", "L165", "L165w", "L168"} -> "Handshaking"
      [] spc \in {"L174", "body"} -> "Ready"
      [] spc \in {"L176", "L176w", "L177", "unwind", "exitbase"} -> "ShuttingDown"
      [] OTHER -> "Stopped"

IdleCall == [pc |-> "idle", kind |-> "none", file |-> "none",
             logged |-> FALSE, sent |-> <<>>, reply |-> NoReply, out |-> NoReply]

\* The router before any request: ids start at 1, nothing pending, nothing
\* in flight; asked and got hold, per caller, the id of the request it sent
\* last and of the response it was given for it (0: none).
RouterIdle ==
    [next_id |-> 1, pending |-> {}, received |-> {}, wire |-> {},
     asked |-> [c \in Callers |-> 0], got |-> [c \in Callers |-> 0]]

Init ==
    /\ spc = "init"
    /\ registry = {}
    /\ server_started = FALSE
    /\ proc = "none"
    /\ params = NoReply
    /\ ssent = <<>>
    /\ initReply = NoReply
    /\ serr = "none"
    /\ unhandled = {}
    /\ service_ready = FALSE
    /\ calls = [c \in Callers |-> IdleCall]
    /\ template = NoReply
    /\ ready_by = NoReply
    /\ served = NoReply
    /\ router = RouterIdle

(***************************************************************************)
(* _get_initialize_params, lines 64-97.                                    *)
(***************************************************************************)
Placeholders == <<"processId", "rootPath", "rootUri", "workspaceFolders">>

Marker ==
    [processId |-> "os.getpid()",
     rootPath |-> "repository_absolute_path",
     rootUri |-> "pathlib.Path(repository_absolute_path).as_uri()",
     workspaceFolders |-> "[{uri: pathlib.Path(repository_absolute_path).as_uri(), name: os.path.basename(repository_absolute_path)}]"]

Substituted ==
    [processId |-> "<pid>",
     rootPath |-> "/repo",
     rootUri |-> "file:///repo",
     workspaceFolders |-> "[{uri: file:///repo, name: repo}]"]

\* The contents initialize_params.json may have: each placeholder is its
\* marker or something else.
Templates == [{Placeholders[i] : i \in 1..Len(Placeholders)} ->
                 {"marker", "other"}]

TemplateValue(loaded, field) ==
    IF loaded[field] = "marker" THEN Marker[field] ELSE "something else"

\* d[field] = value for the four fields in turn, with no check of the marker.
RECURSIVE SubstituteFromUnchecked(_, _)
SubstituteFromUnchecked(d, i) ==
    IF i > Len(Placeholders) THEN Val(d)
    ELSE LET field == Placeholders[i] IN
         SubstituteFromUnchecked([d EXCEPT ![field] = Substituted[field]], i + 1)

\* assert d[field] == marker; d[field] = value, for the four fields in turn.
RECURSIVE SubstituteFrom(_, _)
SubstituteFrom(d, i) ==
    IF i > Len(Placeholders) THEN Val(d)
    ELSE LET field == Placeholders[i] IN
         IF d[field] # Marker[field] THEN Raise("AssertionError")
         ELSE SubstituteFrom([d EXCEPT ![field] = Substituted[field]], i + 1)

GetInitializeParams(loaded) ==
    SubstituteFrom([f \in DOMAIN loaded |-> TemplateValue(loaded, f)], 1)

(***************************************************************************)
(* The initialize responses the server may give.                           *)
(***************************************************************************)
SyncObject(change) == JObj([change |-> change])
InitResponse(sync) == JObj([capabilities |-> JObj([textDocumentSync |-> sync])])

\* change = 2; another mode; the field missing; the sync kind given as a
\* bare number.
InitResponses ==
    {InitResponse(SyncObject(JNum(2))),
     InitResponse(SyncObject(JNum(1))),
     InitResponse(JObj(EmptyDict)),
     InitResponse(JNum(2))}

CapabilityCheckAcceptsAny(init_response) ==
    LET capabilities == Subscript(init_response, "capabilities") IN
    IF ~capabilities.ok THEN capabilities
    ELSE LET sync == Subscript(capabilities.v, "textDocumentSync") IN
         IF ~sync.ok THEN sync
         ELSE LET change == Subscript(sync.v, "change") IN
              IF ~change.ok THEN change
              ELSE Val(TRUE)

\* Line 166: assert init_response["capabilities"]["textDocumentSync"]["change"] == 2
CapabilityCheck(init_response) ==
    LET capabilities == Subscript(init_response, "capabilities") IN
    IF ~capabilities.ok THEN capabilities
    ELSE LET sync == Subscript(capabilities.v, "textDocumentSync") IN
         IF ~sync.ok THEN sync
         ELSE LET change == Subscript(sync.v, "change") IN
              IF ~change.ok THEN change
              ELSE IF change.v = JNum(2) THEN Val(TRUE)
              ELSE Raise("AssertionError")

(***************************************************************************)
(* start_server, lines 99-177.                                             *)
(***************************************************************************)
Msg(method) == [method |-> method]

\* The caller enters `async with lsp.start_server()`.
EnterStartServer ==
    /\ spc = "init"
    /\ spc' = "L148"
    /\ UNCHANGED <<registry, server_started, proc, params, ssent, initReply,
                   serr, unhandled, service_ready, calls, template, ready_by, served, router>>

\* Lines 148-154.
RegisterHandlers ==
    /\ spc = "L148"
    /\ registry' = RegisterAll(registry, Registrations, 1)
    /\ spc' = "L156"
    /\ UNCHANGED <<server_started, proc, params, ssent, initReply, serr,
                   unhandled, service_ready, calls, template, ready_by, served, router>>

\* LanguageServer.start_server, entered at line 156: the base class marks the
\* session started for the duration of the context.
BaseContextEnter ==
    /\ spc = "L156"
    /\ server_started' = TRUE
    /\ spc' = "L158"
    /\ UNCHANGED <<registry, proc, params, ssent, initReply, serr, unhandled, service_ready, calls, template, ready_by, served, router>>

\* Line 158: await self.server.start(), up to its suspension.
StartProcess ==
    /\ spc = "L158"
    /\ spc' = "L158w"
    /\ UNCHANGED <<registry, server_started, proc, params, ssent, initReply,
                   serr, unhandled, service_ready, calls, template, ready_by, served, router>>

\* Line 158 completes: the process runs.
ProcessStarted ==
    /\ spc = "L158w"
    /\ proc' = "running"
    /\ spc' = "L159"
    /\ UNCHANGED <<registry, server_started, params, ssent, initReply, serr,
                   unhandled, service_ready, calls, template, ready_by, served, router>>

\* Line 158 raises: the process could not be launched.
ProcessStartFails ==
    /\ spc = "L158w"
    /\ serr' = "OSError"
    /\ spc' = "unwind"
    /\ UNCHANGED <<registry, server_started, proc, params, ssent, initReply,
                   unhandled, service_ready, calls, template, ready_by, served, router>>

\* Line 159.
BuildInitializeParams ==
    /\ spc = "L159"
    /\ \E loaded \in Templates :
          LET d == GetInitializeParams(loaded) IN
          /\ template' = loaded
          /\ IF d.ok
             THEN /\ params' = d
                  /\ spc' = "L165"
                  /\ serr' = serr
             ELSE /\ params' = params
                  /\ spc' = "unwind"
                  /\ serr' = d.err
    /\ UNCHANGED <<registry, server_started, proc, ssent, initReply, unhandled, service_ready, calls, ready_by, served, router>>

\* Line 165: the initialize request is written, the coroutine awaits the reply.
SendInitialize ==
    /\ spc = "L165"
    /\ ssent' = Append(ssent, Msg("initialize"))
    /\ spc' = "L165w"
    /\ UNCHANGED <<registry, server_started, proc, params, initReply, serr,
                   unhandled, service_ready, calls, template, ready_by, served, router>>

\* The server answers the initialize request, with a result or with an error.
ServerInitReply ==
    /\ spc = "L165w"
    /\ proc = "running"
    /\ initReply = NoReply
    /\ initReply' \in {Val(r) : r \in InitResponses} \cup {Raise("LSPError")}
    /\ UNCHANGED <<spc, registry, server_started, proc, params, ssent, serr,
                   unhandled, service_ready, calls, template, ready_by, served, router>>

\* Lines 165-166: the await returns or raises; the capability is checked.
RecvInitialize ==
    /\ spc = "L165w"
    /\ initReply # NoReply
    /\ LET checked == IF initReply.ok THEN CapabilityCheck(initReply.v)
                      ELSE initReply
       IN IF checked.ok
          THEN spc' = "L168" /\ serr' = serr
          ELSE spc' = "unwind" /\ serr' = checked.err
    /\ UNCHANGED <<registry, server_started, proc, params, ssent, initReply,
                   unhandled, service_ready, calls, template, ready_by, served, router>>

NotifyInitializedSkipped ==
    /\ spc = "L168"
    /\ spc' = "L174"
    /\ UNCHANGED <<registry, server_started, proc, params, ssent, initReply,
                   serr, unhandled, service_ready, calls, template, ready_by, served, router>>

\* Line 168.
NotifyInitialized ==
    /\ spc = "L168"
    /\ ssent' = Append(ssent, Msg("initialized"))
    /\ spc' = "L174"
    /\ UNCHANGED <<registry, server_started, proc, params, initReply, serr,
                   unhandled, service_ready, calls, template, ready_by, served, router>>

\* Line 174: yield self; the caller's body runs.
Yield ==
    /\ spc = "L174"
    /\ spc' = "body"
    /\ UNCHANGED <<registry, server_started, proc, params, ssent, initReply,
                   serr, unhandled, service_ready, calls, template, ready_by, served, router>>

\* The caller's body finishes; the generator resumes after the yield.
BodyReturns ==
    /\ spc = "body"
    /\ spc' = "L176"
    /\ UNCHANGED <<registry, server_started, proc, params, ssent, initReply,
                   serr, unhandled, service_ready, calls, template, ready_by, served, router>>

\* The caller's body raises; the exception is thrown into the generator at
\* the yield of line 174, which no try statement encloses.
BodyRaises ==
    /\ spc = "body"
    /\ serr' = "BodyError"
    /\ spc' = "unwind"
    /\ UNCHANGED <<registry, server_started, proc, params, ssent, initReply,
                   unhandled, service_ready, calls, template, ready_by, served, router>>

\* Line 176 left out: the block goes on to line 177 with nothing sent.
ShutdownSkipped ==
    /\ spc = "L176"
    /\ spc' = "L177"
    /\ UNCHANGED <<registry, server_started, proc, params, ssent, initReply,
                   serr, unhandled, service_ready, calls, template, ready_by, served, router>>

\* Line 176: await self.server.shutdown(), up to its suspension.
Shutdown ==
    /\ spc = "L176"
    /\ ssent' = Append(ssent, Msg("shutdown"))
    /\ spc' = "L176w"
    /\ UNCHANGED <<registry, server_started, proc, params, initReply, serr,
                   unhandled, service_ready, calls, template, ready_by, served, router>>

\* Line 176 completes.
ShutdownDone ==
    /\ spc = "L176w"
    /\ spc' = "L177"
    /\ UNCHANGED <<registry, server_started, proc, params, ssent, initReply,
                   serr, unhandled, service_ready, calls, template, ready_by, served, router>>

\* Line 176 raises.
ShutdownFails ==
    /\ spc = "L176w"
    /\ serr' = "LSPError"
    /\ spc' = "unwind"
    /\ UNCHANGED <<registry, server_started, proc, params, ssent, initReply,
                   unhandled, service_ready, calls, template, ready_by, served, router>>

\* Line 177: await self.server.stop().
Stop ==
    /\ spc = "L177"
    /\ proc' = "stopped"
    /\ spc' = "exitbase"
    /\ UNCHANGED <<registry, server_started, params, ssent, initReply, serr,
                   unhandled, service_ready, calls, template, ready_by, served, router>>

\* LanguageServer.start_server, left at the end of the block of line 156 or by
\* an exception that propagates out of it.
BaseContextExit ==
    /\ spc \in {"exitbase", "unwind"}
    /\ server_started' = FALSE
    /\ spc' = IF spc = "unwind" THEN "raised" ELSE "exited"
    /\ UNCHANGED <<registry, proc, params, ssent, initReply, serr, unhandled, service_ready, calls, template, ready_by, served, router>>

(***************************************************************************)
(* Server-initiated messages and the handlers of lines 115-146.            *)
(***************************************************************************)
StatusParams ==
    {[type |-> "ServiceReady", message |-> "ServiceReady"],
     [type |-> "ServiceReady", message |-> "OK"],
     [type |-> "ProjectStatus", message |-> "OK"]}

\* What the server may push: the requests and notifications it is served.
ServedRequests == {"client/registerCapability", "workspace/executeClientCommand"}
ServedNotifications ==
    {"language/status", "window/logMessage", "$/progress",
     "textDocument/publishDiagnostics", "language/actionableNotification"}

PushMessages ==
    {[kind |-> "request", method |-> m] : m \in ServedRequests}
    \cup {[kind |-> "notification", method |-> m] : m \in ServedNotifications}

\* The handlers the router finds for an inbound message.
HandlersFor(reg, m) == {e \in reg : e.kind = m.kind /\ e.method = m.method}

\* lang_status_handler setting the event on the type alone.
LangStatusHandlerTypeOnly(ready, p) ==
    IF p.type = "ServiceReady" THEN TRUE ELSE ready

\* lang_status_handler, lines 130-135.
LangStatusHandler(ready, p) ==
    IF p.type = "ServiceReady" /\ p.message = "ServiceReady" THEN TRUE ELSE ready

\* The reader task dispatches one inbound message; a message without a
\* registered handler is dropped.
ServerPush ==
    /\ AtAwait
    /\ proc = "running"
    /\ \E m \in PushMessages, p \in StatusParams :
          IF HandlersFor(registry, m) = {}
          THEN /\ unhandled' = unhandled \cup {m}
               /\ service_ready' = service_ready
               /\ ready_by' = ready_by
          ELSE /\ unhandled' = unhandled
               /\ service_ready' =
                     IF \E e \in HandlersFor(registry, m) :
                           e.handler = "lang_status_handler"
                     THEN LangStatusHandler(service_ready, p)
                     ELSE service_ready
               /\ ready_by' = IF ~service_ready /\ service_ready'
                              THEN [method |-> m.method, params |-> p]
                              ELSE ready_by
    /\ UNCHANGED <<spc, registry, server_started, proc, params, ssent,
                   initReply, serr, calls, template, served, router>>

(***************************************************************************)
(* The query calls, lines 179-270.                                         *)
(***************************************************************************)
\* LanguageServer.open_file, the scope of line 200: didOpen on entry,
\* didClose on every exit.
OpenFileEnter(sent, file) ==
    Append(sent, [method |-> "textDocument/didOpen", file |-> file])

OpenFileExit(sent, file) ==
    Append(sent, [method |-> "textDocument/didClose", file |-> file])

NotStartedGuardMissing(started) == FALSE

\* Lines 193 and 237: if not self.server_started.
NotStartedGuard(started) == ~started

\* A message can be written only to a running process; otherwise the write
\* raises and nothing reaches the server.
FailNoProcess(c, kind, file) ==
    calls' = [calls EXCEPT ![c] =
                 [pc |-> "done", kind |-> kind, file |-> file,
                  logged |-> FALSE, sent |-> <<>>, reply |-> NoReply,
                  out |-> Raise("TransportError")]]

\* The guard raising only after the request has gone out.
FailNotStartedAfterSend(c, kind, file) ==
    calls' = [calls EXCEPT ![c] =
                 [pc |-> "done", kind |-> kind, file |-> file,
                  logged |-> TRUE,
                  sent |-> <<[method |-> IF kind = "rename"
                                         THEN "textDocument/rename"
                                         ELSE "workspace/symbol",
                              file |-> file]>>,
                  reply |-> NoReply,
                  out |-> Raise("MultilspyException")]]

\* Lines 194-198 and 238-242: log the error and raise.
FailNotStarted(c, kind, file) ==
    calls' = [calls EXCEPT ![c] =
                 [pc |-> "done", kind |-> kind, file |-> file,
                  logged |-> TRUE, sent |-> <<>>, reply |-> NoReply,
                  out |-> Raise("MultilspyException")]]

\* request_rename, lines 193-210, up to the await of the response.
RenameCall(c, file) ==
    /\ AtAwait
    /\ calls[c].pc = "idle"
    /\ IF NotStartedGuard(server_started)
       THEN FailNotStarted(c, "rename", file)
       ELSE IF proc # "running" THEN FailNoProcess(c, "rename", file)
       ELSE calls' = [calls EXCEPT ![c] =
                [pc |-> "awaiting", kind |-> "rename", file |-> file,
                 logged |-> FALSE,
                 sent |-> Append(OpenFileEnter(<<>>, file),
                                 [method |-> "textDocument/rename", file |-> file]),
                 reply |-> NoReply, out |-> NoReply]]
    /\ UNCHANGED <<spc, registry, server_started, proc, params, ssent,
                   initReply, serr, unhandled, service_ready, template, ready_by, served, router>>

RenameResumeLeavesOpen(c) ==
    /\ AtAwait
    /\ calls[c].pc = "awaiting"
    /\ calls[c].kind = "rename"
    /\ calls[c].reply # NoReply
    /\ calls' = [calls EXCEPT ![c] =
          [@ EXCEPT !.pc = "done",
                    !.sent = IF calls[c].reply.ok
                             THEN OpenFileExit(@, calls[c].file) ELSE @,
                    !.out = IF calls[c].reply.ok
                            THEN RenameTranslate(calls[c].reply.v)
                            ELSE calls[c].reply]]
    /\ UNCHANGED <<spc, registry, server_started, proc, params, ssent,
                   initReply, serr, unhandled, service_ready, template, ready_by, served, router>>

\* request_rename validating inside the scope of line 200, the scope being
\* left without its exit when the validation raises.
RenameResumeValidatesInside(c) ==
    /\ AtAwait
    /\ calls[c].pc = "awaiting"
    /\ calls[c].kind = "rename"
    /\ calls[c].reply # NoReply
    /\ LET result == IF calls[c].reply.ok
                     THEN RenameTranslate(calls[c].reply.v)
                     ELSE calls[c].reply
       IN calls' = [calls EXCEPT ![c] =
             [@ EXCEPT !.pc = "done",
                       !.sent = IF calls[c].reply.ok /\ ~result.ok
                                THEN @ ELSE OpenFileExit(@, calls[c].file),
                       !.out = result]]
    /\ UNCHANGED <<spc, registry, server_started, proc, params, ssent,
                   initReply, serr, unhandled, service_ready, template, ready_by, served, router>>

\* request_rename resumed only once every request sent before its own has
\* been answered.
RenameResumeInOrder(c) ==
    /\ AtAwait
    /\ calls[c].pc = "awaiting"
    /\ calls[c].kind = "rename"
    /\ calls[c].reply # NoReply
    /\ \A d \in Callers :
          router.asked[d] < router.asked[c] => calls[d].pc # "awaiting"
    /\ calls' = [calls EXCEPT ![c] =
          [@ EXCEPT !.pc = "done",
                    !.sent = OpenFileExit(@, calls[c].file),
                    !.out = IF calls[c].reply.ok
                            THEN RenameTranslate(calls[c].reply.v)
                            ELSE calls[c].reply]]
    /\ UNCHANGED <<spc, registry, server_started, proc, params, ssent,
                   initReply, serr, unhandled, service_ready, template,
                   ready_by, served, router>>

\* request_rename re-sending the request when the await raises.
RenameResumeRetries(c) ==
    /\ AtAwait
    /\ calls[c].pc = "awaiting"
    /\ calls[c].kind = "rename"
    /\ calls[c].reply # NoReply
    /\ calls' = [calls EXCEPT ![c] =
          IF calls[c].reply.ok
          THEN [@ EXCEPT !.pc = "done",
                         !.sent = OpenFileExit(@, calls[c].file),
                         !.out = RenameTranslate(calls[c].reply.v)]
          ELSE [@ EXCEPT !.sent = Append(@, [method |-> "textDocument/rename",
                                             file |-> calls[c].file]),
                         !.reply = NoReply]]
    /\ UNCHANGED <<spc, registry, server_started, proc, params, ssent,
                   initReply, serr, unhandled, service_ready, template, ready_by, served, router>>

\* request_rename, lines 202-226: the await returns or raises, the scope of
\* line 200 is left, the response is validated and translated.
RenameResume(c) ==
    /\ AtAwait
    /\ calls[c].pc = "awaiting"
    /\ calls[c].kind = "rename"
    /\ calls[c].reply # NoReply
    /\ calls' = [calls EXCEPT ![c] =
          [@ EXCEPT !.pc = "done",
                    !.sent = OpenFileExit(@, calls[c].file),
                    !.out = IF calls[c].reply.ok
                            THEN RenameTranslate(calls[c].reply.v)
                            ELSE calls[c].reply]]
    /\ UNCHANGED <<spc, registry, server_started, proc, params, ssent,
                   initReply, serr, unhandled, service_ready, template, ready_by, served, router>>

\* request_workspace_symbols, lines 237-244, up to the await of the response.
SymbolsCall(c) ==
    /\ AtAwait
    /\ calls[c].pc = "idle"
    /\ IF NotStartedGuard(server_started)
       THEN FailNotStarted(c, "symbols", "none")
       ELSE IF proc # "running" THEN FailNoProcess(c, "symbols", "none")
       ELSE calls' = [calls EXCEPT ![c] =
                [pc |-> "awaiting", kind |-> "symbols", file |-> "none",
                 logged |-> FALSE,
                 sent |-> <<[method |-> "workspace/symbol", file |-> "none"]>>,
                 reply |-> NoReply, out |-> NoReply]]
    /\ UNCHANGED <<spc, registry, server_started, proc, params, ssent,
                   initReply, serr, unhandled, service_ready, template, ready_by, served, router>>

\* request_workspace_symbols, lines 244-270.
SymbolsResume(c) ==
    /\ AtAwait
    /\ calls[c].pc = "awaiting"
    /\ calls[c].kind = "symbols"
    /\ calls[c].reply # NoReply
    /\ calls' = [calls EXCEPT ![c] =
          [@ EXCEPT !.pc = "done",
                    !.out = IF calls[c].reply.ok
                            THEN SymbolsTranslate(calls[c].reply.v)
                            ELSE calls[c].reply]]
    /\ UNCHANGED <<spc, registry, server_started, proc, params, ssent,
                   initReply, serr, unhandled, service_ready, template, ready_by, served, router>>

\* The caller takes the outcome of its call and may call again.
CallReturns(c) ==
    /\ calls[c].pc = "done"
    /\ calls' = [calls EXCEPT ![c] = IdleCall]
    /\ UNCHANGED <<spc, registry, server_started, proc, params, ssent,
                   initReply, serr, unhandled, service_ready, template, ready_by, served, router>>

(***************************************************************************)
(* The server's answers to the queries.                                    *)
(***************************************************************************)
Range1 == JObj([start |-> JNum(0), end |-> JNum(3)])
Range2 == JObj([start |-> JNum(4), end |-> JNum(7)])
EditFoo == JObj([range |-> Range1, newText |-> JStr("foo")])
EditBar == JObj([range |-> Range2, newText |-> JStr("bar"),
                 annotationId |-> JStr("x")])

Uris == {"file:///a.swift", "file:///b.swift"}

\* Answers used where the lifecycle, not the payload, is under study: one
\* that passes the validation of lines 212-226 and one that fails it.
SampleRenameResponses ==
    {JObj([changes |-> JObj([u \in {"file:///a.swift"} |-> JList(<<EditFoo>>)])]),
     JNull}

SampleSymbolResponses ==
    {JList(<<JObj([name |-> JStr("f"), kind |-> JNum(12),
                   location |-> JObj([uri |-> JStr("file:///a.swift")])])>>)}

ServerReply(c) ==
    /\ calls[c].pc = "awaiting"
    /\ calls[c].reply = NoReply
    /\ proc = "running"
    /\ \E r \in IF calls[c].kind = "rename" THEN SampleRenameResponses
                ELSE SampleSymbolResponses :
          calls' = [calls EXCEPT ![c].reply = Val(r)]
    /\ UNCHANGED <<spc, registry, server_started, proc, params, ssent,
                   initReply, serr, unhandled, service_ready, template, ready_by, served, router>>

\* The request fails: an error response, or the connection is lost.
RequestFails(c) ==
    /\ calls[c].pc = "awaiting"
    /\ calls[c].reply = NoReply
    /\ calls' = [calls EXCEPT ![c].reply = Raise("LSPError")]
    /\ UNCHANGED <<spc, registry, server_started, proc, params, ssent,
                   initReply, serr, unhandled, service_ready, template, ready_by, served, router>>

Next ==
    \/ EnterStartServer
    \/ RegisterHandlers
    \/ BaseContextEnter
    \/ StartProcess
    \/ ProcessStarted
    \/ ProcessStartFails
    \/ BuildInitializeParams
    \/ SendInitialize
    \/ ServerInitReply
    \/ RecvInitialize
    \/ NotifyInitialized
    \/ Yield
    \/ BodyReturns
    \/ BodyRaises
    \/ Shutdown
    \/ ShutdownDone
    \/ ShutdownFails
    \/ Stop
    \/ BaseContextExit
    \/ ServerPush
    \/ \E c \in Callers, file \in Files : RenameCall(c, file)
    \/ \E c \in Callers : RenameResume(c)
    \/ \E c \in Callers : SymbolsCall(c)
    \/ \E c \in Callers : SymbolsResume(c)
    \/ \E c \in Callers : CallReturns(c)
    \/ \E c \in Callers : ServerReply(c)
    \/ \E c \in Callers : RequestFails(c)

Spec == Init /\ [][Next]_vars

(***************************************************************************)
(* The translation of responses, studied on its own: a ready session in    *)
(* which one caller awaits a query whose response has just arrived.        *)
(***************************************************************************)
SeqsUpTo(S, n) == UNION {[1..k -> S] : k \in 0..n}

EditValues ==
    {EditFoo, EditBar,
     JObj([range |-> Range1]),
     JObj([newText |-> JStr("foo")]),
     JStr("edit")}

ChangeValues ==
    {JList(l) : l \in SeqsUpTo(EditValues, MaxEdits)} \cup {JNull, JObj(EmptyDict)}

RenameResponses ==
    {JObj([changes |-> JObj(m)]) :
        m \in UNION {[D -> ChangeValues] : D \in SUBSET Uris}}
    \cup {JNull, JStr("x"), JList(<<>>), JObj(EmptyDict),
          JObj([changes |-> JNull]), JObj([changes |-> JList(<<>>)]),
          JObj([changes |-> JStr("x")])}

UriA == JStr("file:///a.swift")
LocationFull == JObj([uri |-> UriA, range |-> Range1])
LocationUriOnly == JObj([uri |-> UriA])
LocationUriExtra == JObj([uri |-> UriA, extra |-> JNum(1)])
LocationRangeOnly == JObj([range |-> Range1])

OptionalValue ==
    [containerName |-> JStr("C"), tags |-> JList(<<JNum(1)>>), data |-> JNull]

SymbolCore(location) ==
    [name |-> JStr("f"), kind |-> JNum(12), location |-> location]

WithOptional(core, fields) ==
    [k \in DOMAIN core \cup fields |->
        IF k \in fields THEN OptionalValue[k] ELSE core[k]]

SymbolItems ==
    {JObj(WithOptional(SymbolCore(LocationUriOnly), fs)) :
        fs \in SUBSET {"containerName", "tags", "data"}}
    \cup {JObj(WithOptional(SymbolCore(LocationFull), fs)) :
            fs \in {{}, {"containerName", "tags", "data"}}}
    \cup {JObj(WithOptional(SymbolCore(LocationUriExtra), fs)) :
            fs \in {{}, {"tags"}}}
    \cup {JObj(SymbolCore(l)) :
            l \in {LocationRangeOnly, JObj(EmptyDict), UriA, JNull}}
    \cup {JObj([kind |-> JNum(12), location |-> LocationFull]),
          JObj([name |-> JStr("f"), location |-> LocationFull]),
          JObj([name |-> JStr("f"), kind |-> JNum(12)]),
          JStr("item")}

SymbolResponses ==
    {JList(l) : l \in SeqsUpTo(SymbolItems, MaxSymbols)}
    \cup {JNull, JObj(EmptyDict), JStr("x")}

AllMarkers == [f \in {Placeholders[i] : i \in 1..Len(Placeholders)} |-> "marker"]

AwaitingWith(kind, r) ==
    [pc |-> "awaiting", kind |-> kind,
     file |-> IF kind = "rename" THEN "a.swift" ELSE "none",
     logged |-> FALSE,
     sent |-> IF kind = "rename"
              THEN <<[method |-> "textDocument/didOpen", file |-> "a.swift"],
                     [method |-> "textDocument/rename", file |-> "a.swift"]>>
              ELSE <<[method |-> "workspace/symbol", file |-> "none"]>>,
     reply |-> Val(r), out |-> NoReply]

InitTranslate ==
    /\ spc = "body"
    /\ registry = RegisterAll({}, Registrations, 1)
    /\ server_started = TRUE
    /\ proc = "running"
    /\ params = GetInitializeParams(AllMarkers)
    /\ ssent = <<Msg("initialize"), Msg("initialized")>>
    /\ initReply = Val(InitResponse(SyncObject(JNum(2))))
    /\ serr = "none"
    /\ unhandled = {}
    /\ service_ready = FALSE
    /\ template = AllMarkers
    /\ ready_by = NoReply
    /\ served = NoReply
    /\ router = RouterIdle
    /\ \E first \in {AwaitingWith("rename", r) : r \in RenameResponses}
                    \cup {AwaitingWith("symbols", r) : r \in SymbolResponses} :
          calls = [c \in Callers |-> IF c = 1 THEN first ELSE IdleCall]

NextTranslate ==
    \/ \E c \in Callers : RenameResume(c)
    \/ \E c \in Callers : SymbolsResume(c)

SpecTranslate == InitTranslate /\ [][NextTranslate]_vars

(***************************************************************************)
(* The handlers of the two served requests, lines 115-128 and 137-140,     *)
(* studied on their own: a ready session to which the server sends one     *)
(* request.                                                                *)
(***************************************************************************)
TriggerCharacters ==
    JList(<<JStr("."), JStr("@"), JStr("#"), JStr("*"), JStr(" ")>>)

\* The loop of lines 117-127 from the i-th registration on; avail is
\* self.completions_available.
RECURSIVE RegistrationsLoop(_, _, _)
RegistrationsLoop(regs, i, avail) ==
    IF i > Len(regs) THEN [out |-> Val(JNull), avail |-> avail]
    ELSE LET registration == regs[i]
             method == Subscript(registration, "method")
             options == Subscript(registration, "registerOptions")
             resolve == Subscript(options.v, "resolveProvider")
             trigger == Subscript(options.v, "triggerCharacters")
         IN IF ~method.ok THEN [out |-> method, avail |-> avail]
            ELSE IF method.v # JStr("textDocument/completion")
            THEN RegistrationsLoop(regs, i + 1, avail)
            ELSE IF ~options.ok THEN [out |-> options, avail |-> avail]
            ELSE IF ~resolve.ok THEN [out |-> resolve, avail |-> avail]
            ELSE IF ~EqualsTrue(resolve.v)
            THEN [out |-> Raise("AssertionError"), avail |-> avail]
            ELSE IF ~trigger.ok THEN [out |-> trigger, avail |-> avail]
            ELSE IF trigger.v # TriggerCharacters
            THEN [out |-> Raise("AssertionError"), avail |-> avail]
            ELSE RegistrationsLoop(regs, i + 1, TRUE)

\* register_capability_handler, lines 115-128.
RegisterCapabilityHandler(p, avail) ==
    LET has == Contains(p, "registrations")
        regs == Subscript(p, "registrations")
    IN IF ~has.ok THEN [out |-> has, avail |-> avail]
       ELSE IF ~has.v THEN [out |-> Raise("AssertionError"), avail |-> avail]
       ELSE IF ~regs.ok THEN [out |-> regs, avail |-> avail]
       ELSE IF ~IsList(regs.v) THEN [out |-> Raise("TypeError"), avail |-> avail]
       ELSE RegistrationsLoop(regs.v.l, 1, avail)

\* execute_client_command_handler, lines 137-140.
ExecuteClientCommandHandler(p) == Val(JList(<<>>))

CompletionOptions(resolve, trigger) ==
    JObj([resolveProvider |-> resolve, triggerCharacters |-> trigger])

Registration(method, options) ==
    JObj([id |-> JStr("1"), method |-> JStr(method), registerOptions |-> options])

RegistrationValues ==
    {Registration("textDocument/completion",
                  CompletionOptions(JBool(TRUE), TriggerCharacters)),
     Registration("textDocument/completion",
                  CompletionOptions(JBool(FALSE), TriggerCharacters)),
     Registration("textDocument/completion",
                  CompletionOptions(JBool(TRUE), JList(<<JStr(".")>>))),
     Registration("workspace/didChangeWatchedFiles", JObj(EmptyDict)),
     JObj([id |-> JStr("1"), method |-> JStr("textDocument/completion")]),
     JObj([id |-> JStr("1"), method |-> JStr("textDocument/rename")]),
     JObj([id |-> JStr("1")])}

RegisterCapabilityParams ==
    {JObj([registrations |-> JList(regs)]) :
        regs \in SeqsUpTo(RegistrationValues, MaxRegistrations)}
    \cup {JObj([registrations |-> JNull]), JObj(EmptyDict), JNull}

ExecuteClientCommandParams ==
    {JObj([command |-> JStr("workspace.reload"), arguments |-> JList(<<>>)]),
     JObj(EmptyDict), JNull}

Inbound(method, p) ==
    [method |-> method, params |-> p, out |-> NoReply,
     completions_available |-> FALSE]

InitHandlers ==
    /\ spc = "body"
    /\ registry = RegisterAll({}, Registrations, 1)
    /\ server_started = TRUE
    /\ proc = "running"
    /\ params = GetInitializeParams(AllMarkers)
    /\ ssent = <<Msg("initialize"), Msg("initialized")>>
    /\ initReply = Val(InitResponse(SyncObject(JNum(2))))
    /\ serr = "none"
    /\ unhandled = {}
    /\ service_ready = FALSE
    /\ template = AllMarkers
    /\ ready_by = NoReply
    /\ router = RouterIdle
    /\ calls = [c \in Callers |-> IdleCall]
    /\ served \in
          {Inbound("client/registerCapability", p) : p \in RegisterCapabilityParams}
          \cup {Inbound("workspace/executeClientCommand", p) :
                   p \in ExecuteClientCommandParams}

\* The handler the registry holds for a request method.
RequestHandler(method) ==
    {e.handler : e \in HandlersFor(registry, [kind |-> "request", method |-> method])}

\* The router calls the handler registered for client/registerCapability.
ServeRegisterCapability ==
    /\ AtAwait
    /\ served.out = NoReply
    /\ served.method = "client/registerCapability"
    /\ RequestHandler(served.method) = {"register_capability_handler"}
    /\ LET r == RegisterCapabilityHandler(served.params,
                                          served.completions_available)
       IN served' = [served EXCEPT !.out = r.out,
                                   !.completions_available = r.avail]
    /\ UNCHANGED <<spc, registry, server_started, proc, params, ssent,
                   initReply, serr, unhandled, service_ready, calls, template,
                   ready_by, router>>

\* The router calls the handler registered for workspace/executeClientCommand.
ServeExecuteClientCommand ==
    /\ AtAwait
    /\ served.out = NoReply
    /\ served.method = "workspace/executeClientCommand"
    /\ RequestHandler(served.method) = {"execute_client_command_handler"}
    /\ served' = [served EXCEPT !.out = ExecuteClientCommandHandler(served.params)]
    /\ UNCHANGED <<spc, registry, server_started, proc, params, ssent,
                   initReply, serr, unhandled, service_ready, calls, template,
                   ready_by, router>>

NextHandlers ==
    \/ ServeRegisterCapability
    \/ ServeExecuteClientCommand

SpecHandlers == InitHandlers /\ [][NextHandlers]_vars

(***************************************************************************)
(* Concurrent queries through the message router: a ready session whose    *)
(* callers send requests, each tagged with a fresh id; the server answers  *)
(* them in any order and the router hands each response to the caller     *)
(* pending under its id.                                                   *)
(***************************************************************************)
Kinds == {"rename", "symbols"}

\* The well-shaped answer of the server to a request of a kind.
ResultFor(kind) ==
    IF kind = "rename"
    THEN CHOOSE r \in SampleRenameResponses : IsDict(r)
    ELSE CHOOSE r \in SampleSymbolResponses : IsList(r)

InitRouter ==
    /\ spc = "body"
    /\ registry = RegisterAll({}, Registrations, 1)
    /\ server_started = TRUE
    /\ proc = "running"
    /\ params = GetInitializeParams(AllMarkers)
    /\ ssent = <<Msg("initialize"), Msg("initialized")>>
    /\ initReply = Val(InitResponse(SyncObject(JNum(2))))
    /\ serr = "none"
    /\ unhandled = {}
    /\ service_ready = FALSE
    /\ template = AllMarkers
    /\ ready_by = NoReply
    /\ served = NoReply
    /\ router = RouterIdle
    /\ calls = [c \in Callers |-> IdleCall]

\* Lines 193-210 and 237-244 on a started session: the call passes the
\* guard and sends its request, which the router tags with the next id and
\* enters in the pending table.
RouterSend(c, kind) ==
    /\ AtAwait
    /\ calls[c].pc = "idle"
    /\ ~NotStartedGuard(server_started)
    /\ proc = "running"
    /\ router.next_id <= MaxRequests
    /\ calls' = [calls EXCEPT ![c] =
                    [AwaitingWith(kind, JNull) EXCEPT !.reply = NoReply]]
    /\ router' = [router EXCEPT
                     !.next_id = @ + 1,
                     !.pending = @ \cup {[id |-> router.next_id, caller |-> c]},
                     !.received = @ \cup {[id |-> router.next_id, kind |-> kind]},
                     !.asked[c] = router.next_id,
                     !.got[c] = 0]
    /\ UNCHANGED <<spc, registry, server_started, proc, params, ssent,
                   initReply, serr, unhandled, service_ready, template,
                   ready_by, served>>

\* The server answers one of the requests it holds, in any order, with a
\* response that carries the id of the request.
ServerAnswers ==
    /\ proc = "running"
    /\ \E q \in router.received :
          router' = [router EXCEPT
                       !.received = @ \ {q},
                       !.wire = @ \cup {[id |-> q.id, result |-> ResultFor(q.kind)]}]
    /\ UNCHANGED <<spc, registry, server_started, proc, params, ssent,
                   initReply, serr, unhandled, service_ready, calls, template,
                   ready_by, served>>

\* The reader task takes one response, finds the caller pending under its
\* id, hands it the result and removes the entry.
RouterDeliver ==
    /\ AtAwait
    /\ \E m \in router.wire :
       \E e \in {x \in router.pending : x.id = m.id} :
          /\ calls' = [calls EXCEPT ![e.caller].reply = Val(m.result)]
          /\ router' = [router EXCEPT
                          !.wire = @ \ {m},
                          !.pending = @ \ {e},
                          !.got[e.caller] = m.id]
    /\ UNCHANGED <<spc, registry, server_started, proc, params, ssent,
                   initReply, serr, unhandled, service_ready, template,
                   ready_by, served>>

NextRouter ==
    \/ \E c \in Callers, kind \in Kinds : RouterSend(c, kind)
    \/ ServerAnswers
    \/ RouterDeliver
    \/ \E c \in Callers : RenameResume(c)
    \/ \E c \in Callers : SymbolsResume(c)
    \/ \E c \in Callers : CallReturns(c)

SpecRouter == InitRouter /\ [][NextRouter]_vars

(***************************************************************************)
(* Properties.                                                             *)
(***************************************************************************)
\* The initialize response carries capabilities.textDocumentSync.change = 2.
ChangeIs2(r) ==
    /\ IsDict(r)
    /\ HasKey(r, "capabilities")
    /\ IsDict(r.o["capabilities"])
    /\ HasKey(r.o["capabilities"], "textDocumentSync")
    /\ IsDict(r.o["capabilities"].o["textDocumentSync"])
    /\ HasKey(r.o["capabilities"].o["textDocumentSync"], "change")
    /\ r.o["capabilities"].o["textDocumentSync"].o["change"] = JNum(2)

IsPrefix(a, b) == Len(a) <= Len(b) /\ \A i \in 1..Len(a) : a[i] = b[i]

InitializedSent == \E i \in 1..Len(ssent) : ssent[i] = Msg("initialized")

\* C1: the handshake of start_server is strictly ordered: initialize is the
\* first message start_server sends, initialized is sent only after the
\* initialize response was received with change = 2, the session is yielded
\* only after initialized was sent, and start_server sends nothing else
\* before initialized.
C1_HandshakeOrdered ==
    /\ IsPrefix(ssent, <<Msg("initialize"), Msg("initialized"), Msg("shutdown")>>)
    /\ InitializedSent => /\ initReply # NoReply
                          /\ initReply.ok
                          /\ ChangeIs2(initReply.v)
    /\ spc = "body" => ssent = <<Msg("initialize"), Msg("initialized")>>
    /\ Phase = "Handshaking" => IsPrefix(ssent, <<Msg("initialize")>>)
    /\ ssent # <<>> => proc # "none"

C1_Witness ==
    /\ spc = "body"
    /\ ssent = <<Msg("initialize"), Msg("initialized")>>
    /\ initReply = Val(InitResponse(SyncObject(JNum(2))))

\* C2: all seven server-push handlers (two requests, five notifications) are
\* attached before the server process is started and before initialize is
\* sent, so no message the server pushes ever finds its handler missing.
C2_HandlersBeforeStart ==
    /\ (spc \in {"L158w"} \/ proc # "none" \/ ssent # <<>>) =>
          /\ \A m \in ServedRequests :
                \E e \in registry : e.kind = "request" /\ e.method = m
          /\ \A m \in ServedNotifications :
                \E e \in registry : e.kind = "notification" /\ e.method = m
    /\ unhandled = {}

C2_Witness ==
    /\ spc = "L165w"
    /\ service_ready
    /\ unhandled = {}

\* C3: a call of request_rename or request_workspace_symbols made before
\* start_server is entered raises the "Language Server not started" error,
\* logs it and sends nothing; once the handshake has succeeded and the
\* session is yielded, the session is started and a call passes the check.
C3_NotStartedBefore ==
    /\ [](spc = "init" =>
            /\ ~server_started
            /\ \A c \in Callers :
                  /\ calls[c].pc \in {"idle", "done"}
                  /\ calls[c].pc = "done" =>
                        /\ calls[c].out = Raise("MultilspyException")
                        /\ calls[c].logged
                        /\ calls[c].sent = <<>>)
    /\ [](spc = "body" => server_started)
    /\ [][\A c \in Callers :
            (spc = "body" /\ calls[c].pc = "idle" /\ calls'[c].pc # "idle")
               => calls'[c].pc = "awaiting"]_vars

C3_Witness ==
    /\ spc = "init"
    /\ \E c \in Callers :
          /\ calls[c].pc = "done"
          /\ calls[c].kind = "rename"
          /\ calls[c].out = Raise("MultilspyException")
    /\ \E c \in Callers :
          /\ calls[c].pc = "done"
          /\ calls[c].kind = "symbols"
          /\ calls[c].out = Raise("MultilspyException")

\* C4: while the session is Handshaking (start_server entered, initialized
\* not yet sent) a query call is rejected: none is past the precondition
\* check and none has sent anything to the server.
C4_HandshakingRejects ==
    Phase = "Handshaking" =>
        \A c \in Callers : calls[c].pc # "awaiting" /\ calls[c].sent = <<>>

DidOpen(f) == [method |-> "textDocument/didOpen", file |-> f]
DidClose(f) == [method |-> "textDocument/didClose", file |-> f]
Rename(f) == [method |-> "textDocument/rename", file |-> f]

PassedGuard(c) ==
    /\ calls[c].pc # "idle"
    /\ calls[c].out \notin {Raise("MultilspyException"), Raise("TransportError")}

\* C5: in request_rename on a started session didOpen for the target file is
\* sent before the rename request and the matching didClose exactly once
\* after it, on every exit path, also when the request raises; a finished
\* call leaves no file open.
C5_OpenFileScope ==
    \A c \in Callers :
        (calls[c].kind = "rename" /\ PassedGuard(c)) =>
            /\ calls[c].pc = "awaiting" =>
                  calls[c].sent = <<DidOpen(calls[c].file), Rename(calls[c].file)>>
            /\ calls[c].pc = "done" =>
                  calls[c].sent = <<DidOpen(calls[c].file), Rename(calls[c].file),
                                    DidClose(calls[c].file)>>

C5_Witness ==
    \E c \in Callers :
        /\ calls[c].kind = "rename"
        /\ calls[c].pc = "done"
        /\ calls[c].reply = Raise("LSPError")
        /\ calls[c].out = Raise("LSPError")
        /\ calls[c].sent = <<DidOpen("a.swift"), Rename("a.swift"), DidClose("a.swift")>>

\* C6: whenever start_server has started the server process, leaving the
\* context on any path (the body returns, the body raises, the handshake
\* fails) has performed the graceful shutdown and then stopped the process.
C6_ShutdownGuaranteed ==
    (spc \in {"exited", "raised"} /\ proc # "none") =>
        /\ \E i \in 1..Len(ssent) : ssent[i] = Msg("shutdown")
        /\ proc = "stopped"

\* C7: if the initialize response does not carry
\* capabilities.textDocumentSync.change = 2, start_server raises, initialized
\* is never sent and the session is never yielded.
C7_MismatchFatal ==
    (initReply # NoReply /\ initReply.ok /\ ~ChangeIs2(initReply.v)) =>
        /\ spc \in {"L165w", "unwind", "raised"}
        /\ ~InitializedSent
        /\ spc \in {"unwind", "raised"} =>
              serr \in {"AssertionError", "KeyError", "TypeError"}

C7_Witness ==
    /\ spc = "raised"
    /\ initReply = Val(InitResponse(SyncObject(JNum(1))))
    /\ serr = "AssertionError"
    /\ ssent = <<Msg("initialize")>>

\* The shape a rename response is expected to have.
WellShapedRename(r) ==
    /\ IsDict(r)
    /\ HasKey(r, "changes")
    /\ IsDict(r.o["changes"])
    /\ \A u \in DOMAIN r.o["changes"].o :
          LET edits == r.o["changes"].o[u] IN
          /\ IsList(edits)
          /\ \A i \in 1..Len(edits.l) :
                /\ IsDict(edits.l[i])
                /\ HasKey(edits.l[i], "range")
                /\ HasKey(edits.l[i], "newText")

\* The shape a non-null workspace symbol response is expected to have.
WellShapedSymbols(r) ==
    /\ IsList(r)
    /\ \A i \in 1..Len(r.l) :
          /\ IsDict(r.l[i])
          /\ HasKey(r.l[i], "name")
          /\ HasKey(r.l[i], "kind")
          /\ HasKey(r.l[i], "location")
          /\ IsDict(r.l[i].o["location"])
          /\ HasKey(r.l[i].o["location"], "uri")

Answered(c, kind) ==
    /\ calls[c].pc = "done"
    /\ calls[c].kind = kind
    /\ calls[c].reply # NoReply
    /\ calls[c].reply.ok

\* The exceptions by which the code reports a response of the wrong shape.
ShapeErrors == {"AssertionError", "KeyError", "TypeError", "AttributeError"}

\* C8: every response that fails the expected shape of its method ends in
\* an error of the shape-failure class, never in a result.
C8_MalformedRejected ==
    \A c \in Callers :
        /\ (Answered(c, "rename") /\ ~WellShapedRename(calls[c].reply.v)) =>
              (~calls[c].out.ok /\ calls[c].out.err \in ShapeErrors)
        /\ (Answered(c, "symbols") /\ calls[c].reply.v # JNull
               /\ ~WellShapedSymbols(calls[c].reply.v)) =>
              (~calls[c].out.ok /\ calls[c].out.err \in ShapeErrors)

\* C9: for a well-shaped rename response the result maps exactly the URIs
\* of `changes`, each to a list of the same length and order whose edits
\* keep range and newText.
C9_RenameTranslation ==
    \A c \in Callers :
        (Answered(c, "rename") /\ WellShapedRename(calls[c].reply.v)) =>
            LET changes == calls[c].reply.v.o["changes"].o
                out == calls[c].out
            IN /\ out.ok
               /\ DOMAIN out.edits = DOMAIN changes
               /\ \A u \in DOMAIN changes :
                     /\ Len(out.edits[u]) = Len(changes[u].l)
                     /\ \A i \in 1..Len(changes[u].l) :
                           /\ out.edits[u][i]["range"] = changes[u].l[i].o["range"]
                           /\ out.edits[u][i]["newText"] = changes[u].l[i].o["newText"]

C9_Witness ==
    \E c \in Callers :
        /\ Answered(c, "rename")
        /\ calls[c].reply.v =
              JObj([changes |-> JObj([u \in Uris |->
                  IF u = "file:///a.swift" THEN JList(<<EditFoo, EditBar>>)
                  ELSE JList(<<EditBar>>)])])
        /\ calls[c].out.ok
        /\ calls[c].out.edits["file:///a.swift"] = <<EditFoo.o, EditBar.o>>
        /\ calls[c].out.edits["file:///b.swift"] = <<EditBar.o>>

\* C10: a null workspace symbol response yields the empty list; a
\* well-shaped one yields a result, and every result is a list of the same
\* length and order in which each item keeps name and kind, keeps its
\* location when the location has a range and otherwise gets a location of
\* the URI alone, and carries containerName, tags, data exactly when the
\* response item has them.
C10_SymbolsTranslation ==
    \A c \in Callers :
        Answered(c, "symbols") =>
            LET r == calls[c].reply.v
                out == calls[c].out
            IN /\ r = JNull => out = [ok |-> TRUE, symbols |-> <<>>]
               /\ WellShapedSymbols(r) => out.ok
               /\ (r # JNull /\ out.ok) =>
                     /\ Len(out.symbols) = Len(r.l)
                     /\ \A i \in 1..Len(r.l) :
                           LET item == r.l[i].o
                               symbol == out.symbols[i]
                           IN /\ symbol["name"] = item["name"]
                              /\ symbol["kind"] = item["kind"]
                              /\ symbol["location"] =
                                    IF HasKey(item["location"], "range")
                                    THEN item["location"]
                                    ELSE JObj([uri |-> item["location"].o["uri"]])
                              /\ \A f \in {"containerName", "tags", "data"} :
                                    /\ f \in DOMAIN symbol <=> f \in DOMAIN item
                                    /\ f \in DOMAIN item => symbol[f] = item[f]
                              /\ DOMAIN symbol \subseteq
                                    {"name", "kind", "location",
                                     "containerName", "tags", "data"}

C10_Witness ==
    \E c \in Callers :
        /\ Answered(c, "symbols")
        /\ calls[c].reply.v =
              JList(<<JObj(WithOptional(SymbolCore(LocationUriExtra), {"tags"})),
                      JObj(SymbolCore(LocationFull))>>)
        /\ calls[c].out =
              [ok |-> TRUE,
               symbols |-> <<WithOptional(SymbolCore(LocationUriOnly), {"tags"}),
                             SymbolCore(LocationFull)>>]

(***************************************************************************)
(* C16: the four placeholders of the loaded initialize parameters are each *)
(* checked against their marker before being replaced.  A template in      *)
(* which any of them is not its marker makes start_server fail with an     *)
(* AssertionError before anything is sent; whenever initialize has been    *)
(* sent, the template held all four markers and the parameters carry all   *)
(* four substituted values.                                                *)
(***************************************************************************)
C16_ParamsValidated ==
    /\ (template # NoReply /\ template # AllMarkers) =>
           /\ spc \in {"unwind", "raised"}
           /\ serr = "AssertionError"
           /\ ssent = <<>>
           /\ params = NoReply
    /\ (\E i \in 1..Len(ssent) : ssent[i] = Msg("initialize")) =>
           /\ template = AllMarkers
           /\ params.ok
           /\ \A i \in 1..Len(Placeholders) :
                 params.v[Placeholders[i]] = Substituted[Placeholders[i]]

\* Start-up has failed on a template whose first three placeholders are
\* right and whose last is not, with nothing sent.
C16_Witness ==
    /\ spc = "raised"
    /\ template # NoReply
    /\ template = [AllMarkers EXCEPT !["workspaceFolders"] = "other"]
    /\ serr = "AssertionError"
    /\ ssent = <<>>

(***************************************************************************)
(* C17: once start_server has registered its handlers the registry holds   *)
(* exactly one handler for each of the two request methods and each of the *)
(* five notification methods, each under the right kind, and no step taken *)
(* after initialize was sent adds, removes or replaces an entry.           *)
(***************************************************************************)
KindOf ==
    [m \in ServedRequests \cup ServedNotifications |->
        IF m \in ServedRequests THEN "request" ELSE "notification"]

RegistryComplete ==
    /\ Cardinality(registry) = 7
    /\ \A m \in DOMAIN KindOf :
          Cardinality({e \in registry : e.method = m}) = 1
    /\ \A e \in registry : e.method \in DOMAIN KindOf /\ e.kind = KindOf[e.method]

C17_RegistryFixed ==
    /\ [](spc \notin {"init", "L148"} => RegistryComplete)
    /\ [][ssent # <<>> => registry' = registry]_vars

\* The session has run to its end with the seven entries in place.
C17_Witness ==
    /\ spc = "exited"
    /\ proc = "stopped"
    /\ RegistryComplete

(***************************************************************************)
(* C14: when the body of the context finishes without error, shutdown is   *)
(* sent and awaited to completion before the process is stopped, both only *)
(* after the handshake completed; once the context has exited the session  *)
(* is no longer started, it never leaves that state, and every query call  *)
(* begun afterwards fails with the precondition error and sends nothing.   *)
(***************************************************************************)
ShutdownSent == \E i \in 1..Len(ssent) : ssent[i] = Msg("shutdown")

\* A step in which a caller begins a call ends it at once with the
\* precondition error, nothing sent.
BegunCallsRejected ==
    \A c \in Callers :
        (calls[c].pc = "idle" /\ calls'[c].pc # "idle") =>
            /\ calls'[c].pc = "done"
            /\ calls'[c].out = Raise("MultilspyException")
            /\ calls'[c].sent = <<>>
            /\ calls'[c].logged

C14_NormalExitLinear ==
    /\ [](/\ ShutdownSent => InitializedSent
          /\ spc = "L176w" => (ShutdownSent /\ proc = "running")
          /\ spc = "L177" => (ShutdownSent /\ proc = "running")
          /\ proc = "stopped" =>
                /\ ssent = <<Msg("initialize"), Msg("initialized"), Msg("shutdown")>>
                /\ spc \in {"exitbase", "exited"}
          /\ spc = "exited" => (~server_started /\ proc = "stopped"))
    /\ [][spc = "exited" => (spc' = "exited" /\ ~server_started' /\ BegunCallsRejected)]_vars

\* After a normal exit one caller holds the result of a query served while
\* the session was ready and another has been refused.
C14_Witness ==
    /\ spc = "exited"
    /\ proc = "stopped"
    /\ ~server_started
    /\ \E c \in Callers : /\ calls[c].pc = "done"
                          /\ calls[c].out = Raise("MultilspyException")
    /\ \E c \in Callers : /\ calls[c].pc = "done"
                          /\ calls[c].out.ok

(***************************************************************************)
(* C12: nothing is retried.  Each call of request_rename or                *)
(* request_workspace_symbols sends at most one request of its method,      *)
(* start_server sends exactly one initialize request, and a call that      *)
(* ended in an error sent its request exactly once or not at all.          *)
(***************************************************************************)
CountOf(seq, method) ==
    Cardinality({i \in 1..Len(seq) : seq[i].method = method})

QueryMethod(kind) ==
    IF kind = "rename" THEN "textDocument/rename" ELSE "workspace/symbol"

C12_NoRetries ==
    /\ CountOf(ssent, "initialize") <= 1
    /\ spc \in {"L165w", "L168", "L174", "body", "L176", "L176w", "L177",
                 "exitbase", "exited"} => CountOf(ssent, "initialize") = 1
    /\ \A c \in Callers :
          /\ CountOf(calls[c].sent, "textDocument/rename") <= 1
          /\ CountOf(calls[c].sent, "workspace/symbol") <= 1
          /\ calls[c].pc = "awaiting" =>
                CountOf(calls[c].sent, QueryMethod(calls[c].kind)) = 1
          /\ (calls[c].pc = "done" /\ calls[c].reply # NoReply) =>
                CountOf(calls[c].sent, QueryMethod(calls[c].kind)) = 1

\* One rename request failed and another's response failed validation; both
\* errors reached their callers and each request went out once.
C12_Witness ==
    \E c, d \in Callers :
        /\ calls[c].pc = "done"
        /\ calls[c].kind = "rename"
        /\ calls[c].reply = Raise("LSPError")
        /\ calls[c].out = Raise("LSPError")
        /\ CountOf(calls[c].sent, "textDocument/rename") = 1
        /\ calls[d].pc = "done"
        /\ calls[d].kind = "rename"
        /\ calls[d].reply = Val(JNull)
        /\ calls[d].out = Raise("AssertionError")
        /\ CountOf(calls[d].sent, "textDocument/rename") = 1

(***************************************************************************)
(* C19: a start-up that failed during the handshake (the process did not   *)
(* start, a placeholder did not match, initialize failed or the capability *)
(* did not match) leaves the session not started: it stays so, and every   *)
(* query call begun afterwards fails with the precondition error and sends *)
(* nothing.                                                                *)
(***************************************************************************)
HandshakeFailed == spc = "raised" /\ ~InitializedSent

C18_ClosedBeforeValidation ==
    \A c \in Callers :
        (Answered(c, "rename") /\ ~calls[c].out.ok) =>
            /\ calls[c].out.err \in ShapeErrors
            /\ Len(calls[c].sent) = 3
            /\ calls[c].sent[1] = DidOpen(calls[c].file)
            /\ calls[c].sent[3] = DidClose(calls[c].file)
            /\ CountOf(calls[c].sent, "textDocument/didClose") = 1

\* A response whose changes hold an edit without newText was refused after
\* the file had been closed.
C18_Witness ==
    \E c \in Callers :
        /\ Answered(c, "rename")
        /\ IsDict(calls[c].reply.v)
        /\ HasKey(calls[c].reply.v, "changes")
        /\ ~WellShapedRename(calls[c].reply.v)
        /\ calls[c].out = Raise("AssertionError")
        /\ calls[c].sent[Len(calls[c].sent)] = DidClose(calls[c].file)

(***************************************************************************)
(* C15: start_server yields to the caller once initialized is sent without *)
(* waiting for the service-ready event, whatever language/status           *)
(* notifications have or have not come in.  The event is set only by a     *)
(* language/status notification whose type and message are both            *)
(* "ServiceReady", and is never cleared once set.                          *)
(***************************************************************************)
ReadyNotification ==
    [method |-> "language/status",
     params |-> [type |-> "ServiceReady", message |-> "ServiceReady"]]

C15_ReadyIsPostHandshake ==
    /\ [](/\ spc = "L174" => ENABLED Yield
          /\ service_ready <=> ready_by = ReadyNotification
          /\ ~service_ready <=> ready_by = NoReply)
    /\ [][/\ service_ready => service_ready'
          /\ (~service_ready /\ service_ready') =>
                (spc' = spc /\ calls' = calls /\ ssent' = ssent
                 /\ ready_by' = ReadyNotification)
          /\ (spc = "L174" /\ spc' # spc) => (spc' = "body" /\ ssent' = ssent)]_vars

\* The session has been yielded although the server never reported
\* ServiceReady.
C15_Witness ==
    /\ spc = "body"
    /\ ~service_ready
    /\ ready_by = NoReply
    /\ ssent = <<Msg("initialize"), Msg("initialized")>>
    /\ \E c \in Callers : calls[c].pc = "done" /\ calls[c].out.ok

(***************************************************************************)
(* C11: the handlers of the served requests always succeed with their      *)
(* fixed value: whatever the params of a client/registerCapability request *)
(* its handler returns without raising, and whatever the params of a       *)
(* workspace/executeClientCommand request its handler returns an empty     *)
(* list.                                                                   *)
(***************************************************************************)
C11_ServedRequestsSucceed ==
    (served # NoReply /\ served.out # NoReply) =>
        /\ served.method = "client/registerCapability" => served.out.ok
        /\ served.method = "workspace/executeClientCommand" =>
              served.out = Val(JList(<<>>))

====
